---- MODULE Spec2Model ----
(***************************************************************************)
(* Wire codec and swap composite of the token-swap program:                *)
(*   src/src/curve/base.rs   SwapCurve (swap, Pack), CurveType             *)
(*   src/src/instruction.rs  SwapInstruction (unpack, pack), builders      *)
(*   src/src/processor.rs    Processor::process_with_constraints           *)
(*                                                                         *)
(* A u64 is held as four 16-bit limbs, least significant first, so that    *)
(* the full 64-bit range is representable; bytes are 0..255.  The u128     *)
(* arithmetic of SwapCurve::swap is modelled at a reduced width, U128_MAX. *)
(***************************************************************************)
EXTENDS Integers, Sequences, FiniteSets, TLC

VARIABLES
    pc,        \* which operation completed last
    value,     \* the in-memory value an encode was applied to
    buf,       \* the byte buffer written by an encode / read by a decode
    result,    \* what the last decode or swap returned
    out,       \* the bytes written by re-encoding a decoded value
    call,      \* the arguments of the last SwapCurve::swap call
    log        \* the calls made so far: swap calls with what they returned,
               \* or the handlers a dispatch invoked

vars == <<pc, value, buf, result, out, call, log>>

----------------------------------------------------------------------------
(* Results, options and errors *)

Ok(v) == [kind |-> "Ok", value |-> v]

Err(e) == [kind |-> "Err", err |-> e]

\* a Rust panic: the call returns neither a value nor an error value
Panic == [kind |-> "Panic"]

Some(v) == [kind |-> "Some", value |-> v]

None == [kind |-> "None"]

NoValue == [variant |-> "NoValue"]

----------------------------------------------------------------------------
(* Bytes and u64 *)

Byte == 0..255

Repeat(b, n) == [i \in 1..n |-> b]

Take(s, n) == SubSeq(s, 1, n)

Drop(s, n) == SubSeq(s, n + 1, Len(s))

\* u64 from a small natural
U64(n) == <<n, 0, 0, 0>>

U64_MAX == <<65535, 65535, 65535, 65535>>

\* the bytes of v most significant first
to_be_bytes(v) ==
    [j \in 1..8 |-> IF j % 2 = 1 THEN v[4 - (j - 1) \div 2] \div 256
                                 ELSE v[4 - (j - 1) \div 2] % 256]

\* u64::to_le_bytes
to_le_bytes(v) ==
    [j \in 1..8 |-> IF j % 2 = 1 THEN v[(j + 1) \div 2] % 256
                                 ELSE v[j \div 2] \div 256]

\* u64::from_le_bytes on an 8-byte array
from_le_bytes(bs) ==
    [i \in 1..4 |-> bs[2 * i - 1] + 256 * bs[2 * i]]

----------------------------------------------------------------------------
(* Fees and StableCurve: crate::curve::fees and crate::curve::stable, as    *)
(* the specification describes their wire records.  Fees is four ratio     *)
(* pairs (numerator, denominator) of u64, held as a sequence of eight u64  *)
(* in wire order; StableCurve is one u64 parameter in a 32-byte region.    *)

Fees_LEN == 64

Fees_pack_into_slice(fees) ==
    to_le_bytes(fees[1]) \o to_le_bytes(fees[2]) \o to_le_bytes(fees[3]) \o
    to_le_bytes(fees[4]) \o to_le_bytes(fees[5]) \o to_le_bytes(fees[6]) \o
    to_le_bytes(fees[7]) \o to_le_bytes(fees[8])

Fees_unpack_from_slice(input) ==
    Ok([i \in 1..8 |-> from_le_bytes(SubSeq(input, 8 * i - 7, 8 * i))])

\* writes its parameter into the head of the region, leaves the padding as is
StableCurve_pack_into_slice(calculator, output) ==
    to_le_bytes(calculator.amp) \o Drop(output, 8)

StableCurve_unpack_from_slice(input) ==
    Ok([variant |-> "Stable", amp |-> from_le_bytes(Take(input, 8))])

----------------------------------------------------------------------------
(* src/src/curve/base.rs: CurveType and the SwapCurve record *)

SwapCurve_LEN == 33

\* `self.curve_type as u8`: CurveType declares the one variant Stable with
\* no explicit discriminant, so the cast yields its declaration index
CurveType_as_u8(curve_type) ==
    CASE curve_type = "Stable" -> 0

\* a conversion that falls back to the default variant
CurveType_try_from_defaulting(curve_type) ==
    Ok("Stable")

\* impl TryFrom<u8> for CurveType
CurveType_try_from(curve_type) ==
    IF curve_type = 2 THEN Ok("Stable") ELSE Err("InvalidAccountData")

\* SwapCurve::unpack_from_slice; array_ref![input, 0, 33] indexes input[0..33]
\* and panics on a shorter slice
SwapCurve_unpack_from_slice(input) ==
    IF Len(input) < 33 THEN Panic
    ELSE LET in33 == Take(input, 33)
             curve_type == CurveType_try_from(in33[1])
             calculator == StableCurve_unpack_from_slice(SubSeq(in33, 2, 33))
         IN  IF curve_type.kind = "Err" THEN curve_type
             ELSE IF calculator.kind = "Err" THEN calculator
             ELSE Ok([curve_type |-> curve_type.value,
                      calculator |-> calculator.value])

\* SwapCurve::pack_into_slice, on an output buffer of at least 33 bytes
SwapCurve_pack_into_slice(self, output) ==
    <<CurveType_as_u8(self.curve_type)>>
        \o StableCurve_pack_into_slice(self.calculator, SubSeq(output, 2, 33))
        \o Drop(output, 33)

\* Pack::unpack_unchecked as SwapInstruction::unpack calls it: the length is
\* compared with LEN before unpack_from_slice runs
Fees_unpack_unchecked(input) ==
    IF Len(input) # Fees_LEN THEN Err("InvalidAccountData")
    ELSE Fees_unpack_from_slice(input)

SwapCurve_unpack_unchecked(input) ==
    IF Len(input) # SwapCurve_LEN THEN Err("InvalidAccountData")
    ELSE SwapCurve_unpack_from_slice(input)

----------------------------------------------------------------------------
(* src/src/instruction.rs: SwapInstruction *)

Initialize(fees, swap_curve) ==
    [variant |-> "Initialize", fees |-> fees, swap_curve |-> swap_curve]

Swap(amount_in, minimum_amount_out) ==
    [variant |-> "Swap", amount_in |-> amount_in,
     minimum_amount_out |-> minimum_amount_out]

DepositAllTokenTypes(pool_token_amount, maximum_token_a_amount, maximum_token_b_amount) ==
    [variant |-> "DepositAllTokenTypes",
     pool_token_amount |-> pool_token_amount,
     maximum_token_a_amount |-> maximum_token_a_amount,
     maximum_token_b_amount |-> maximum_token_b_amount]

WithdrawAllTokenTypes(pool_token_amount, minimum_token_a_amount, minimum_token_b_amount) ==
    [variant |-> "WithdrawAllTokenTypes",
     pool_token_amount |-> pool_token_amount,
     minimum_token_a_amount |-> minimum_token_a_amount,
     minimum_token_b_amount |-> minimum_token_b_amount]

\* SwapInstruction::unpack_u64: Ok(<<amount, rest>>)
unpack_u64(input) ==
    IF Len(input) >= 8
    THEN Ok(<<from_le_bytes(Take(input, 8)), Drop(input, 8)>>)
    ELSE Err("InvalidInstruction")

\* the tag 0 arm of SwapInstruction::unpack
unpack_initialize(rest) ==
    IF Len(rest) >= Fees_LEN
    THEN LET fees == Fees_unpack_unchecked(Take(rest, Fees_LEN))
             swap_curve == SwapCurve_unpack_unchecked(Drop(rest, Fees_LEN))
         IN  IF fees.kind # "Ok" THEN fees
             ELSE IF swap_curve.kind # "Ok" THEN swap_curve
             ELSE Ok(Initialize(fees.value, swap_curve.value))
    ELSE Err("InvalidInstruction")

\* the tag 1 arm
unpack_swap(rest) ==
    LET a == unpack_u64(rest) IN
    IF a.kind # "Ok" THEN a ELSE
    LET b == unpack_u64(a.value[2]) IN
    IF b.kind # "Ok" THEN b ELSE
    Ok(Swap(a.value[1], b.value[1]))

\* the tag 2 arm
unpack_deposit(rest) ==
    LET a == unpack_u64(rest) IN
    IF a.kind # "Ok" THEN a ELSE
    LET b == unpack_u64(a.value[2]) IN
    IF b.kind # "Ok" THEN b ELSE
    LET c == unpack_u64(b.value[2]) IN
    IF c.kind # "Ok" THEN c ELSE
    Ok(DepositAllTokenTypes(a.value[1], b.value[1], c.value[1]))

\* the tag 3 arm with the two minimum amounts exchanged
unpack_withdraw_exchanged(rest) ==
    LET a == unpack_u64(rest) IN
    IF a.kind # "Ok" THEN a ELSE
    LET b == unpack_u64(a.value[2]) IN
    IF b.kind # "Ok" THEN b ELSE
    LET c == unpack_u64(b.value[2]) IN
    IF c.kind # "Ok" THEN c ELSE
    Ok(WithdrawAllTokenTypes(a.value[1], c.value[1], b.value[1]))

\* the tag 3 arm
unpack_withdraw(rest) ==
    LET a == unpack_u64(rest) IN
    IF a.kind # "Ok" THEN a ELSE
    LET b == unpack_u64(a.value[2]) IN
    IF b.kind # "Ok" THEN b ELSE
    LET c == unpack_u64(b.value[2]) IN
    IF c.kind # "Ok" THEN c ELSE
    Ok(WithdrawAllTokenTypes(a.value[1], b.value[1], c.value[1]))

\* an unpack whose last arm decodes instead of rejecting
SwapInstruction_unpack_lenient(input) ==
    IF Len(input) = 0 THEN Err("InvalidInstruction")
    ELSE LET tag == input[1]
             rest == Drop(input, 1)
         IN  CASE tag = 0 -> unpack_initialize(rest)
               [] tag = 1 -> unpack_swap(rest)
               [] tag = 2 -> unpack_deposit(rest)
               [] OTHER   -> unpack_withdraw(rest)

\* SwapInstruction::unpack
SwapInstruction_unpack(input) ==
    IF Len(input) = 0 THEN Err("InvalidInstruction")
    ELSE LET tag == input[1]
             rest == Drop(input, 1)
         IN  CASE tag = 0 -> unpack_initialize(rest)
               [] tag = 1 -> unpack_swap(rest)
               [] tag = 2 -> unpack_deposit(rest)
               [] tag = 3 -> unpack_withdraw(rest)
               [] OTHER   -> Err("InvalidInstruction")

\* SwapInstruction::pack
SwapInstruction_pack(self) ==
    CASE self.variant = "Initialize" ->
            <<0>> \o Fees_pack_into_slice(self.fees)
                  \o SwapCurve_pack_into_slice(self.swap_curve,
                                               Repeat(0, SwapCurve_LEN))
      [] self.variant = "Swap" ->
            <<1>> \o to_le_bytes(self.amount_in)
                  \o to_le_bytes(self.minimum_amount_out)
      [] self.variant = "DepositAllTokenTypes" ->
            <<2>> \o to_le_bytes(self.pool_token_amount)
                  \o to_le_bytes(self.maximum_token_a_amount)
                  \o to_le_bytes(self.maximum_token_b_amount)
      [] self.variant = "WithdrawAllTokenTypes" ->
            <<3>> \o to_le_bytes(self.pool_token_amount)
                  \o to_le_bytes(self.minimum_token_a_amount)
                  \o to_le_bytes(self.minimum_token_b_amount)

\* the data of the Instruction the `initialize` builder returns
initialize(fees, swap_curve) ==
    SwapInstruction_pack(Initialize(fees, swap_curve))

----------------------------------------------------------------------------
(* src/src/processor.rs: the dispatch.  A handler invocation is recorded as *)
(* its name and the arguments taken from the decoded instruction.          *)

Unit == <<>>

Invocation(handler, args) == [handler |-> handler, args |-> args]

\* Processor::process_initialize
process_initialize(fees, swap_curve) == Ok(Unit)

\* Processor::process_swap
process_swap(amount_in, minimum_amount_out) == Ok(Unit)

\* Processor::process_deposit_all_token_types
process_deposit_all_token_types(pool_token_amount, maximum_token_a_amount, maximum_token_b_amount) == Ok(Unit)

\* Processor::process_withdraw_all_token_types
process_withdraw_all_token_types(pool_token_amount, minimum_token_a_amount, minimum_token_b_amount) == Ok(Unit)

\* the match of Processor::process_with_constraints on a decoded instruction:
\* what the handler returns and the one invocation made
dispatch(i) ==
    CASE i.variant = "Initialize" ->
            [result |-> process_initialize(i.fees, i.swap_curve),
             invoked |-> <<Invocation("process_initialize",
                                      <<i.fees, i.swap_curve>>)>>]
      [] i.variant = "Swap" ->
            [result |-> process_swap(i.amount_in, i.minimum_amount_out),
             invoked |-> <<Invocation("process_swap",
                                      <<i.amount_in, i.minimum_amount_out>>)>>]
      [] i.variant = "DepositAllTokenTypes" ->
            [result |-> process_deposit_all_token_types(
                            i.pool_token_amount, i.maximum_token_a_amount,
                            i.maximum_token_b_amount),
             invoked |-> <<Invocation("process_deposit_all_token_types",
                                      <<i.pool_token_amount,
                                        i.maximum_token_a_amount,
                                        i.maximum_token_b_amount>>)>>]
      [] i.variant = "WithdrawAllTokenTypes" ->
            [result |-> process_withdraw_all_token_types(
                            i.pool_token_amount, i.minimum_token_a_amount,
                            i.minimum_token_b_amount),
             invoked |-> <<Invocation("process_withdraw_all_token_types",
                                      <<i.pool_token_amount,
                                        i.minimum_token_a_amount,
                                        i.minimum_token_b_amount>>)>>]

\* a dispatch that sends a withdrawal to the deposit handler
process_with_constraints_crossed(input) ==
    LET instruction == SwapInstruction_unpack(input)
    IN  IF instruction.kind # "Ok"
        THEN [result |-> instruction, invoked |-> <<>>]
        ELSE IF instruction.value.variant = "WithdrawAllTokenTypes"
        THEN dispatch(DepositAllTokenTypes(
                          instruction.value.pool_token_amount,
                          instruction.value.minimum_token_a_amount,
                          instruction.value.minimum_token_b_amount))
        ELSE dispatch(instruction.value)

\* Processor::process_with_constraints
process_with_constraints(input) ==
    LET instruction == SwapInstruction_unpack(input)
    IN  IF instruction.kind # "Ok"
        THEN [result |-> instruction, invoked |-> <<>>]
        ELSE dispatch(instruction.value)

----------------------------------------------------------------------------
(* Inputs *)

\* trailing bytes appended to a canonical record
MaxExtra == 2

\* u64 values: zero, one, the scenario's 1000, a value whose eight bytes are
\* all different, and u64::MAX
U64Samples ==
    {U64(0), U64(1), U64(1000), <<513, 1027, 1541, 2055>>, U64_MAX}

FeesSamples ==
    { [i \in 1..8 |-> U64(0)],
      [i \in 1..8 |-> U64(i)],
      [i \in 1..8 |-> U64_MAX],
      <<U64(25), U64(10000), U64(5), U64(10000),
        U64(0), U64(0), U64(20), U64(100)>> }

StableCurve(amp) == [variant |-> "Stable", amp |-> amp]

\* every SwapCurve the program can hold: curve_type Stable with a StableCurve
SwapCurveSamples ==
    { [curve_type |-> "Stable", calculator |-> StableCurve(amp)] :
        amp \in U64Samples }

InitializeSamples ==
    { Initialize(f, c) : f \in FeesSamples, c \in SwapCurveSamples }

SwapSamples ==
    { Swap(a, b) : a \in U64Samples, b \in U64Samples }

DepositSamples ==
    { DepositAllTokenTypes(a, b, c) :
        a \in U64Samples, b \in U64Samples, c \in U64Samples }

WithdrawSamples ==
    { WithdrawAllTokenTypes(a, b, c) :
        a \in U64Samples, b \in U64Samples, c \in U64Samples }

InstructionSamples ==
    InitializeSamples \cup SwapSamples \cup DepositSamples \cup WithdrawSamples

\* the canonical record length of each tag
CanonicalLen(tag) ==
    CASE tag = 0 -> 1 + Fees_LEN + SwapCurve_LEN
      [] tag = 1 -> 17
      [] tag = 2 -> 25
      [] tag = 3 -> 25

TagOf(v) ==
    CASE v.variant = "Initialize" -> 0
      [] v.variant = "Swap" -> 1
      [] v.variant = "DepositAllTokenTypes" -> 2
      [] v.variant = "WithdrawAllTokenTypes" -> 3

Tags == {0, 1, 2, 3, 4, 255}

Fills == {0, 2, 255}

\* a first byte followed by a constant fill, of every length from 0 to
\* twice the longest record
FilledBuffers ==
    { IF n = 0 THEN <<>> ELSE <<t>> \o Repeat(f, n - 1) :
        t \in Tags, f \in Fills, n \in 0..(2 * CanonicalLen(0)) }

\* an Initialize record as a client of the deployed protocol writes it:
\* discriminant byte d in front of the 32-byte parameter region
InitializeWire(fees, d, params) ==
    <<0>> \o Fees_pack_into_slice(fees) \o <<d>> \o params

ParamRegions ==
    { Repeat(0, 32), Repeat(255, 32), [i \in 1..32 |-> i],
      to_le_bytes(U64(1000)) \o Repeat(0, 24) }

WireRecords ==
    { InitializeWire(f, d, p) :
        f \in FeesSamples, d \in {0, 1, 2, 3, 255}, p \in ParamRegions }
    \cup { SwapInstruction_pack(v) :
             v \in { Swap(U64(1000), U64(1)), Swap(U64_MAX, U64(0)),
                     DepositAllTokenTypes(U64(1), U64(1000), U64_MAX),
                     WithdrawAllTokenTypes(U64_MAX, U64(1000), U64(1)) } }

\* every prefix of a set of records, and each record with trailing bytes
PrefixesOf(W) ==
    UNION { { Take(w, n) : n \in 0..Len(w) } : w \in W }

ExtensionsOf(W) ==
    { w \o Repeat(f, k) : w \in W, f \in {0, 255}, k \in 1..MaxExtra }

\* tag 1, amount_in = 1000, minimum_amount_out = 1
ScenarioSwap ==
    <<1, 232, 3, 0, 0, 0, 0, 0, 0, 1, 0, 0, 0, 0, 0, 0, 0>>

Buffers ==
    FilledBuffers \cup PrefixesOf(WireRecords) \cup ExtensionsOf(WireRecords)
        \cup {ScenarioSwap}

\* inputs of SwapCurve::unpack_from_slice: every discriminant byte in front
\* of a parameter region, and filled buffers of length 0 to twice the record
CurveBuffers ==
    { <<d>> \o p : d \in Byte, p \in ParamRegions }
    \cup { Repeat(f, n) : f \in Fills, n \in 0..(2 * SwapCurve_LEN) }
    \cup { (<<2>> \o p) \o Repeat(f, k) :
             p \in ParamRegions, f \in {0, 255}, k \in 1..MaxExtra }

----------------------------------------------------------------------------
(* The codec as a state machine: a value is encoded and the bytes decoded   *)
(* again, or bytes arrive from outside and are decoded, and a decoded      *)
(* value is encoded again.                                                 *)

Init ==
    /\ pc = "start"
    /\ value = NoValue
    /\ buf = <<>>
    /\ result = None
    /\ out = <<>>
    /\ call = NoValue
    /\ log = <<>>

\* SwapInstruction::pack of a value built in memory
Pack ==
    /\ pc = "start"
    /\ \E v \in InstructionSamples :
         /\ value' = v
         /\ buf' = SwapInstruction_pack(v)
    /\ pc' = "packed"
    /\ UNCHANGED <<result, out, call, log>>

\* the `initialize` builder; the instruction's data is kept
BuildInitialize ==
    /\ pc = "start"
    /\ \E f \in FeesSamples, c \in SwapCurveSamples :
         /\ value' = Initialize(f, c)
         /\ buf' = initialize(f, c)
    /\ pc' = "built"
    /\ UNCHANGED <<result, out, call, log>>

\* SwapInstruction::unpack of the bytes just encoded
Unpack ==
    /\ pc \in {"packed", "built"}
    /\ result' = SwapInstruction_unpack(buf)
    /\ pc' = "unpacked"
    /\ UNCHANGED <<value, buf, out, call, log>>

\* SwapInstruction::unpack of bytes from outside
Decode ==
    /\ pc = "start"
    /\ \E b \in Buffers :
         /\ buf' = b
         /\ result' = SwapInstruction_unpack(b)
    /\ pc' = "decoded"
    /\ UNCHANGED <<value, out, call, log>>

\* SwapInstruction::pack of a decoded value
Repack ==
    /\ pc \in {"unpacked", "decoded"}
    /\ result.kind = "Ok"
    /\ out' = SwapInstruction_pack(result.value)
    /\ pc' = "repacked"
    /\ UNCHANGED <<value, buf, result, call, log>>

\* SwapCurve::pack_into_slice into a 33-byte buffer holding f everywhere
CurvePack ==
    /\ pc = "start"
    /\ \E c \in SwapCurveSamples, f \in {0, 255} :
         /\ value' = c
         /\ buf' = SwapCurve_pack_into_slice(c, Repeat(f, SwapCurve_LEN))
    /\ pc' = "curve_packed"
    /\ UNCHANGED <<result, out, call, log>>

\* SwapCurve::unpack_from_slice of the bytes just encoded
CurveUnpack ==
    /\ pc = "curve_packed"
    /\ result' = SwapCurve_unpack_from_slice(buf)
    /\ pc' = "curve_unpacked"
    /\ UNCHANGED <<value, buf, out, call, log>>

\* SwapCurve::unpack_from_slice of bytes from outside
CurveDecode ==
    /\ pc = "start"
    /\ \E b \in CurveBuffers :
         /\ buf' = b
         /\ result' = SwapCurve_unpack_from_slice(b)
    /\ pc' = "curve_decoded"
    /\ UNCHANGED <<value, out, call, log>>

\* Processor::process_with_constraints on bytes from outside
Process ==
    /\ pc = "start"
    /\ \E b \in Buffers :
         /\ buf' = b
         /\ result' = process_with_constraints(b).result
         /\ log' = process_with_constraints(b).invoked
    /\ pc' = "processed"
    /\ UNCHANGED <<value, out, call>>

Next ==
    \/ Pack
    \/ BuildInitialize
    \/ Unpack
    \/ Decode
    \/ Repack
    \/ CurvePack
    \/ CurveUnpack
    \/ CurveDecode
    \/ Process

Spec == Init /\ [][Next]_vars

----------------------------------------------------------------------------
(* src/src/curve/base.rs: SwapCurve::swap.  u128 is modelled as 0..U128_MAX. *)
(* The Fee Model and the held calculator are collaborators: what            *)
(* fees.trading_fee, fees.owner_trading_fee and calculator.swap_without_fees *)
(* return to this call is an input of the call, any Option of the type;     *)
(* `asked` records the amount the calculator was called with.              *)

U128_MAX == 4

U128 == 0..U128_MAX

\* u128 addition that wraps at the width
wrapping_add(a, b) ==
    Some((a + b) % (U128_MAX + 1))

\* u128::checked_add
checked_add(a, b) ==
    IF a + b > U128_MAX THEN None ELSE Some(a + b)

\* u128 subtraction that wraps at the width
wrapping_sub(a, b) ==
    Some((a - b) % (U128_MAX + 1))

\* u128 subtraction that stops at zero
saturating_sub(a, b) ==
    Some(IF a < b THEN 0 ELSE a - b)

\* u128::checked_sub
checked_sub(a, b) ==
    IF a < b THEN None ELSE Some(a - b)

SwapWithoutFeesResult(source_amount_swapped, destination_amount_swapped) ==
    [source_amount_swapped |-> source_amount_swapped,
     destination_amount_swapped |-> destination_amount_swapped]

\* the construction of SwapResult that closes SwapCurve::swap
SwapResult(swap_source_amount, swap_destination_amount, source_amount_swapped, destination_amount_swapped, trade_fee, owner_fee) ==
    LET new_swap_source_amount ==
            checked_add(swap_source_amount, source_amount_swapped)
        new_swap_destination_amount ==
            checked_sub(swap_destination_amount, destination_amount_swapped)
    IN  IF new_swap_source_amount.kind = "None" THEN None
        ELSE IF new_swap_destination_amount.kind = "None" THEN None
        ELSE Some([new_swap_source_amount |-> new_swap_source_amount.value,
                   new_swap_destination_amount |->
                       new_swap_destination_amount.value,
                   source_amount_swapped |-> source_amount_swapped,
                   destination_amount_swapped |-> destination_amount_swapped,
                   trade_fee |-> trade_fee,
                   owner_fee |-> owner_fee])

\* the head of SwapCurve::swap: the two fees summed, no value when either
\* fee is none or the sum overflows
total_fees(trading_fee, owner_trading_fee) ==
    IF trading_fee.kind = "None" THEN None
    ELSE IF owner_trading_fee.kind = "None" THEN None
    ELSE checked_add(trading_fee.value, owner_trading_fee.value)

\* the amount SwapCurve::swap hands to calculator.swap_without_fees, no
\* value when the calculator is not reached
source_amount_less_fees(source_amount, trading_fee, owner_trading_fee) ==
    LET fees_sum == total_fees(trading_fee, owner_trading_fee)
    IN  IF fees_sum.kind = "None" THEN None
        ELSE checked_sub(source_amount, fees_sum.value)


\* a swap that counts the calls made on it and fails from the second on
SwapCurve_swap_counting(source_amount, swap_source_amount, swap_destination_amount, trading_fee, owner_trading_fee, swap_without_fees) ==
    IF log # <<>> THEN None
    ELSE IF source_amount_less_fees(source_amount, trading_fee,
                                    owner_trading_fee).kind = "None"
    THEN None
    ELSE IF swap_without_fees.kind = "None" THEN None
    ELSE LET fees_sum == total_fees(trading_fee, owner_trading_fee).value
             source_amount_swapped ==
                 checked_add(swap_without_fees.value.source_amount_swapped,
                             fees_sum)
         IN  IF source_amount_swapped.kind = "None" THEN None
             ELSE SwapResult(swap_source_amount, swap_destination_amount,
                             source_amount_swapped.value,
                             swap_without_fees.value.destination_amount_swapped,
                             trading_fee.value, owner_trading_fee.value)

\* a swap that reports the calculator's source amount without the fees
SwapCurve_swap_net_of_fees(source_amount, swap_source_amount, swap_destination_amount, trading_fee, owner_trading_fee, swap_without_fees) ==
    IF source_amount_less_fees(source_amount, trading_fee,
                               owner_trading_fee).kind = "None"
    THEN None
    ELSE IF swap_without_fees.kind = "None" THEN None
    ELSE SwapResult(swap_source_amount, swap_destination_amount,
                    swap_without_fees.value.source_amount_swapped,
                    swap_without_fees.value.destination_amount_swapped,
                    trading_fee.value, owner_trading_fee.value)

\* SwapCurve::swap; trading_fee, owner_trading_fee and swap_without_fees are
\* the Options the three collaborator calls return
SwapCurve_swap(source_amount, swap_source_amount, swap_destination_amount, trading_fee, owner_trading_fee, swap_without_fees) ==
    IF source_amount_less_fees(source_amount, trading_fee,
                               owner_trading_fee).kind = "None"
    THEN None
    ELSE IF swap_without_fees.kind = "None" THEN None
    ELSE
    LET fees_sum == total_fees(trading_fee, owner_trading_fee).value
        source_amount_swapped ==
            checked_add(swap_without_fees.value.source_amount_swapped,
                        fees_sum)
    IN  IF source_amount_swapped.kind = "None" THEN None
        ELSE SwapResult(swap_source_amount, swap_destination_amount,
                        source_amount_swapped.value,
                        swap_without_fees.value.destination_amount_swapped,
                        trading_fee.value, owner_trading_fee.value)

OptionU128 == {None} \cup { Some(n) : n \in U128 }

OptionSwapWithoutFees ==
    {None} \cup { Some(SwapWithoutFeesResult(s, d)) : s \in U128, d \in U128 }

TradeDirection == {"AtoB", "BtoA"}

\* one call of SwapCurve::swap
SwapCall ==
    /\ pc = "start"
    /\ \E source_amount \in U128, swap_source_amount \in U128,
          swap_destination_amount \in U128,
          trade_direction \in TradeDirection,
          trading_fee \in OptionU128, owner_trading_fee \in OptionU128,
          swap_without_fees \in OptionSwapWithoutFees :
         /\ call' = [source_amount |-> source_amount,
                     swap_source_amount |-> swap_source_amount,
                     swap_destination_amount |-> swap_destination_amount,
                     trade_direction |-> trade_direction,
                     trading_fee |-> trading_fee,
                     owner_trading_fee |-> owner_trading_fee,
                     asked |-> source_amount_less_fees(source_amount,
                                   trading_fee, owner_trading_fee),
                     swap_without_fees |-> swap_without_fees]
         /\ result' = SwapCurve_swap(source_amount, swap_source_amount,
                                     swap_destination_amount, trading_fee,
                                     owner_trading_fee, swap_without_fees)
    /\ pc' = "swapped"
    /\ UNCHANGED <<value, buf, out, log>>

NextSwap ==
    \/ SwapCall

SwapSpec == Init /\ [][NextSwap]_vars

----------------------------------------------------------------------------
(* Repeated calls of SwapCurve::swap on one SwapCurve and one Fees.  The   *)
(* fee model and the calculator are pure functions of their arguments: a  *)
(* later call with the arguments of an earlier one gets the same answer.  *)

MaxCalls == 3

\* the bytes of a SwapCurve followed by the bytes of a Fees
EncodeConfig(config) ==
    SwapCurve_pack_into_slice(config.swap_curve, Repeat(0, SwapCurve_LEN))
        \o Fees_pack_into_slice(config.fees)

SwapConfigs ==
    { [swap_curve |-> c, fees |-> f] :
        c \in { [curve_type |-> "Stable", calculator |-> StableCurve(amp)] :
                  amp \in {U64(1), U64_MAX} },
        f \in { [i \in 1..8 |-> U64(i)] } }

\* source_amount, swap_source_amount, swap_destination_amount, trade_direction
SwapInputs ==
    { [source_amount |-> 2, swap_source_amount |-> 1,
       swap_destination_amount |-> U128_MAX, trade_direction |-> "AtoB"],
      [source_amount |-> 3, swap_source_amount |-> 1,
       swap_destination_amount |-> U128_MAX, trade_direction |-> "AtoB"],
      [source_amount |-> 2, swap_source_amount |-> 1,
       swap_destination_amount |-> U128_MAX, trade_direction |-> "BtoA"] }

TradingFeeAnswers == {None, Some(1)}

OwnerTradingFeeAnswers == {None, Some(0), Some(1)}

SwapWithoutFeesAnswers ==
    {None, Some(SwapWithoutFeesResult(1, 1)), Some(SwapWithoutFeesResult(2, 1))}

\* Fees::trading_fee and Fees::owner_trading_fee answer as they did before
\* for the same amount; owner_trading_fee is not asked after a failed
\* trading_fee
fees_agree(history, source_amount, trading_fee, owner_trading_fee) ==
    /\ (trading_fee.kind = "None") = (owner_trading_fee.kind = "None")
    /\ \A i \in DOMAIN history :
         history[i].source_amount = source_amount =>
             /\ trading_fee = history[i].trading_fee
             /\ owner_trading_fee = history[i].owner_trading_fee

\* CurveCalculator::swap_without_fees answers as it did before for the same
\* arguments; it is not asked when the fees exceed the source amount
calculator_agrees(history, asked, swap_source_amount, swap_destination_amount, trade_direction, swap_without_fees) ==
    /\ asked.kind = "None" => swap_without_fees = None
    /\ \A i \in DOMAIN history :
         (/\ history[i].asked = asked
          /\ asked.kind # "None"
          /\ history[i].swap_source_amount = swap_source_amount
          /\ history[i].swap_destination_amount = swap_destination_amount
          /\ history[i].trade_direction = trade_direction)
         => swap_without_fees = history[i].swap_without_fees

\* a SwapCurve and a Fees are taken; their bytes are kept in buf
SwapSetup ==
    /\ pc = "start"
    /\ \E config \in SwapConfigs :
         /\ value' = config
         /\ buf' = EncodeConfig(config)
    /\ pc' = "swapping"
    /\ UNCHANGED <<result, out, call, log>>

\* one more call of SwapCurve::swap on the SwapCurve and Fees taken
SwapAgain ==
    /\ pc = "swapping"
    /\ Len(log) < MaxCalls
    /\ \E input \in SwapInputs, trading_fee \in TradingFeeAnswers,
          owner_trading_fee \in OwnerTradingFeeAnswers,
          swap_without_fees \in SwapWithoutFeesAnswers :
         LET asked == source_amount_less_fees(input.source_amount,
                          trading_fee, owner_trading_fee)
             returned == SwapCurve_swap(input.source_amount,
                             input.swap_source_amount,
                             input.swap_destination_amount, trading_fee,
                             owner_trading_fee, swap_without_fees)
         IN  /\ fees_agree(log, input.source_amount, trading_fee,
                           owner_trading_fee)
             /\ calculator_agrees(log, asked, input.swap_source_amount,
                                  input.swap_destination_amount,
                                  input.trade_direction, swap_without_fees)
             /\ result' = returned
             /\ log' = Append(log,
                    [source_amount |-> input.source_amount,
                     swap_source_amount |-> input.swap_source_amount,
                     swap_destination_amount |-> input.swap_destination_amount,
                     trade_direction |-> input.trade_direction,
                     trading_fee |-> trading_fee,
                     owner_trading_fee |-> owner_trading_fee,
                     asked |-> asked,
                     swap_without_fees |-> swap_without_fees,
                     result |-> returned])
    /\ pc' = "swapping"
    /\ UNCHANGED <<value, buf, out, call>>

NextSwapSeq ==
    \/ SwapSetup
    \/ SwapAgain

SwapSeqSpec == Init /\ [][NextSwapSeq]_vars

----------------------------------------------------------------------------
(* Properties *)

\* C1: SwapCurve::unpack_from_slice of the 33 bytes written by
\* SwapCurve::pack_into_slice(v) succeeds and returns a SwapCurve equal to v.
C1_CurveRoundTrip ==
    pc = "curve_unpacked" => result = Ok(value)

\* C2: SwapCurve::pack_into_slice writes the wire discriminant of the held
\* variant into byte 0: 0x02 for Stable, the value CurveType::try_from maps
\* to Stable.
C2_PackWritesWireDiscriminant ==
    pc = "curve_packed" =>
        /\ buf[1] = 2
        /\ CurveType_try_from(buf[1]) = Ok(value.curve_type)

\* C3: the bytes SwapInstruction::pack (and the initialize builder) produces
\* for an Initialize value are accepted by SwapInstruction::unpack, which
\* returns Initialize with the same fees and the same swap_curve.
C3_InitializeRoundTrip ==
    (pc = "unpacked" /\ value.variant = "Initialize") =>
        /\ result.kind = "Ok"
        /\ result.value.variant = "Initialize"
        /\ result.value.fees = value.fees
        /\ result.value.swap_curve = value.swap_curve

\* C4: for every Swap, DepositAllTokenTypes and WithdrawAllTokenTypes value
\* v, unpack(pack(v)) succeeds and returns v: the same variant and the same
\* field values in the same fields.
C4_AmountsRoundTrip ==
    (/\ pc = "unpacked"
     /\ value.variant \in {"Swap", "DepositAllTokenTypes",
                           "WithdrawAllTokenTypes"}) =>
        result = Ok(value)

C4_Witness ==
    /\ pc = "unpacked"
    /\ value = WithdrawAllTokenTypes(U64(1000), <<513, 1027, 1541, 2055>>,
                                     U64_MAX)
    /\ result = Ok(value)

\* the u64 fields of a value, in wire order
FieldsOf(v) ==
    CASE v.variant = "Swap" -> <<v.amount_in, v.minimum_amount_out>>
      [] v.variant = "DepositAllTokenTypes" ->
            <<v.pool_token_amount, v.maximum_token_a_amount,
              v.maximum_token_b_amount>>
      [] v.variant = "WithdrawAllTokenTypes" ->
            <<v.pool_token_amount, v.minimum_token_a_amount,
              v.minimum_token_b_amount>>
      [] OTHER -> <<>>

\* byte j (0 the least significant) of a u64
ByteOf(v, j) ==
    (v[(j \div 2) + 1] \div (IF j % 2 = 0 THEN 1 ELSE 256)) % 256

\* b is the canonical record of v: the length of v's tag, the tag in byte
\* 0, every u64 field little-endian at its offset with nothing in between
CanonicalRecord(b, v) ==
    /\ Len(b) = CanonicalLen(TagOf(v))
    /\ b[1] = TagOf(v)
    /\ \A i \in 1..Len(FieldsOf(v)) : \A j \in 0..7 :
           b[1 + 8 * (i - 1) + j + 1] = ByteOf(FieldsOf(v)[i], j)

C6_TruncatedIsInvalidInstruction ==
    (/\ pc = "decoded"
     /\ Len(buf) >= 1
     /\ buf[1] \in {0, 1, 2, 3}
     /\ Len(buf) < CanonicalLen(IF buf[1] \in {0, 1, 2, 3} THEN buf[1] ELSE 0)) =>
        result = Err("InvalidInstruction")

\* C7: unpack of the empty buffer fails with InvalidInstruction, and so
\* does unpack of any buffer whose first byte is not 0, 1, 2 or 3, whatever
\* bytes follow.
C7_EmptyAndUnknownTag ==
    (pc = "decoded" /\ (Len(buf) = 0 \/ buf[1] \notin {0, 1, 2, 3})) =>
        result = Err("InvalidInstruction")

C7_Witness ==
    /\ pc = "decoded"
    /\ buf = <<255>>
    /\ result = Err("InvalidInstruction")

\* C8: for every buffer of length 0 to twice the record size, both
\* SwapInstruction::unpack and SwapCurve::unpack_from_slice return a value
\* or an error value: decoding never panics.
C8_DecodeNeverPanics ==
    pc \in {"decoded", "unpacked", "curve_decoded", "curve_unpacked"} =>
        result.kind \in {"Ok", "Err"}

\* C9: unpack_from_slice of a 33-byte record whose byte 0 is not a known
\* discriminant fails with InvalidAccountData whatever the parameter bytes
\* hold; no SwapCurve is produced and the variant is never defaulted; every
\* SwapCurve decode produces holds a calculator of its curve_type's variant.
C9_UnknownDiscriminantRejected ==
    pc \in {"curve_decoded", "curve_unpacked"} =>
        /\ (Len(buf) = 33 /\ buf[1] # 2) => result = Err("InvalidAccountData")
        /\ result.kind = "Ok" =>
               /\ buf[1] = 2
               /\ result.value.curve_type = "Stable"
               /\ result.value.calculator.variant = result.value.curve_type

C9_Witness ==
    /\ pc = "curve_decoded"
    /\ Len(buf) = 33
    /\ buf[1] = 0
    /\ buf[2] = 255
    /\ result = Err("InvalidAccountData")

\* C10: for every call of SwapCurve::swap that returns a result,
\* new_swap_source_amount = swap_source_amount + source_amount_swapped and
\* new_swap_destination_amount = swap_destination_amount -
\* destination_amount_swapped, exactly and within the u128 range.
C10_Conservation ==
    (pc = "swapped" /\ result.kind = "Some") =>
        /\ result.value.new_swap_source_amount =
               call.swap_source_amount + result.value.source_amount_swapped
        /\ result.value.new_swap_destination_amount =
               call.swap_destination_amount
                   - result.value.destination_amount_swapped
        /\ result.value.new_swap_source_amount \in U128
        /\ result.value.new_swap_destination_amount \in U128
        /\ result.value.source_amount_swapped \in U128

C10_Witness ==
    /\ pc = "swapped"
    /\ result.kind = "Some"
    /\ call.source_amount = 3
    /\ result.value.trade_fee = 1
    /\ result.value.owner_fee = 1
    /\ result.value.source_amount_swapped = 3
    /\ result.value.destination_amount_swapped = 2
    /\ result.value.new_swap_source_amount = 4
    /\ result.value.new_swap_destination_amount = 1

\* C11: whenever SwapCurve::swap returns a result, trade_fee + owner_fee <=
\* source_amount; whenever the trading fee plus the owner trading fee
\* computed from source_amount exceeds source_amount, swap returns no result.
C11_FeesWithinSourceAmount ==
    pc = "swapped" =>
        /\ result.kind = "Some" =>
               /\ result.value.trade_fee = call.trading_fee.value
               /\ result.value.owner_fee = call.owner_trading_fee.value
               /\ result.value.trade_fee + result.value.owner_fee
                      <= call.source_amount
        /\ (/\ call.trading_fee.kind = "Some"
            /\ call.owner_trading_fee.kind = "Some"
            /\ call.trading_fee.value + call.owner_trading_fee.value
                   > call.source_amount) =>
               result = None

C11_Witness ==
    /\ pc = "swapped"
    /\ call.source_amount = 3
    /\ call.trading_fee = Some(2)
    /\ call.owner_trading_fee = Some(2)
    /\ call.swap_without_fees.kind = "Some"
    /\ result = None

\* C13: in every result of SwapCurve::swap, source_amount_swapped is the
\* calculator's source_amount_swapped for the fee-reduced amount
\* (source_amount - trade_fee - owner_fee) plus trade_fee + owner_fee, and
\* destination_amount_swapped is exactly what the calculator returned for
\* that amount.
C13_FeesAddedBackToSourceOnly ==
    (pc = "swapped" /\ result.kind = "Some") =>
        /\ call.asked =
               Some(call.source_amount - result.value.trade_fee
                        - result.value.owner_fee)
        /\ call.swap_without_fees.kind = "Some"
        /\ result.value.source_amount_swapped =
               call.swap_without_fees.value.source_amount_swapped
                   + result.value.trade_fee + result.value.owner_fee
        /\ result.value.destination_amount_swapped =
               call.swap_without_fees.value.destination_amount_swapped

C13_Witness ==
    /\ pc = "swapped"
    /\ call.source_amount = 4
    /\ call.asked = Some(1)
    /\ call.swap_without_fees = Some(SwapWithoutFeesResult(1, 2))
    /\ result.kind = "Some"
    /\ result.value.trade_fee = 2
    /\ result.value.owner_fee = 1
    /\ result.value.source_amount_swapped = 4
    /\ result.value.destination_amount_swapped = 2

\* C14: SwapCurve::swap returns no result whenever trade_fee + owner_fee,
\* the calculator's source amount + total fees, or swap_source_amount +
\* gross source_amount_swapped exceeds the u128 range, whenever
\* destination_amount_swapped exceeds swap_destination_amount, and whenever
\* a fee computation or the calculator returns no value.
C14_NoWrap ==
    pc = "swapped" =>
        LET tf == call.trading_fee
            of == call.owner_trading_fee
            wf == call.swap_without_fees
            fees_known == tf.kind = "Some" /\ of.kind = "Some"
            all_known == fees_known /\ wf.kind = "Some"
        IN  /\ (tf.kind = "None" \/ of.kind = "None" \/ wf.kind = "None") =>
                   result = None
            /\ (fees_known /\ tf.value + of.value > U128_MAX) =>
                   result = None
            /\ (all_known /\ wf.value.source_amount_swapped + tf.value
                                 + of.value > U128_MAX) =>
                   result = None
            /\ (all_known /\ call.swap_source_amount
                                 + wf.value.source_amount_swapped + tf.value
                                 + of.value > U128_MAX) =>
                   result = None
            /\ (all_known /\ wf.value.destination_amount_swapped
                                 > call.swap_destination_amount) =>
                   result = None
            /\ result.kind = "Some" =>
                   \A f \in DOMAIN result.value : result.value[f] \in U128

C14_Witness ==
    /\ pc = "swapped"
    /\ call.source_amount = 2
    /\ call.trading_fee = Some(1)
    /\ call.owner_trading_fee = Some(1)
    /\ call.swap_source_amount = U128_MAX
    /\ call.swap_without_fees = Some(SwapWithoutFeesResult(0, 0))
    /\ result = None

\* the handler of each tag
HandlerOfTag(tag) ==
    CASE tag = 0 -> "process_initialize"
      [] tag = 1 -> "process_swap"
      [] tag = 2 -> "process_deposit_all_token_types"
      [] tag = 3 -> "process_withdraw_all_token_types"

\* C15: process_with_constraints invokes a handler only after
\* SwapInstruction::unpack has succeeded, and then exactly one: the handler
\* of the decoded tag, with the decoded field values; when unpack fails no
\* handler is invoked and the decode error is returned unchanged.
C15_DispatchAfterDecode ==
    pc = "processed" =>
        LET decoded == SwapInstruction_unpack(buf)
        IN  /\ decoded.kind # "Ok" => (log = <<>> /\ result = decoded)
            /\ decoded.kind = "Ok" =>
                   /\ Len(log) = 1
                   /\ log[1].handler = HandlerOfTag(buf[1])
                   /\ log[1].args =
                          IF buf[1] = 0
                          THEN <<decoded.value.fees, decoded.value.swap_curve>>
                          ELSE FieldsOf(decoded.value)
                   /\ result = Ok(Unit)

C15_Witness ==
    /\ pc = "processed"
    /\ buf = <<3>> \o to_le_bytes(U64_MAX) \o to_le_bytes(U64(1000))
                   \o to_le_bytes(U64(1))
    /\ log = <<Invocation("process_withdraw_all_token_types",
                          <<U64_MAX, U64(1000), U64(1)>>)>>
    /\ result = Ok(Unit)

\* C16: SwapInstruction::unpack accepts only canonical-length buffers: for
\* every buffer that unpack accepts, under each of the tags 0, 1, 2 and 3,
\* SwapInstruction::pack of the decoded value reproduces the buffer byte for
\* byte, so no accepted buffer has bytes after the tag's fixed payload.
C16_AcceptedIsCanonical ==
    pc = "repacked" => (out = buf /\ Len(buf) = CanonicalLen(buf[1]))

\* the five inputs of the call recorded in e, on the Fees taken
SameInputs(e, f) ==
    /\ e.source_amount = f.source_amount
    /\ e.swap_source_amount = f.swap_source_amount
    /\ e.swap_destination_amount = f.swap_destination_amount
    /\ e.trade_direction = f.trade_direction

====
